---- MODULE Spec2Model ----
(***************************************************************************)
(* Model of the ICMP echo client of src/ping.go: the PingClient session,   *)
(* one Ping call split at its statements that touch the session or the     *)
(* socket, the main loop that drives it, and the goroutine that prints the *)
(* statistics on an interrupt and exits the process.                       *)
(*                                                                         *)
(* Times are whole milliseconds; a float64 quotient a / b is kept as the   *)
(* pair <<a, b>> so that no division is evaluated in the model.            *)
(***************************************************************************)
EXTENDS Integers, Sequences, FiniteSets, TLC

\* ---- bounds of the model ----
MaxCalls == 2        \* Ping calls the main loop makes
MaxDur == 2          \* round-trip times are 1..MaxDur ms
MaxMsgSize == 2      \* -s flag values are 0..MaxMsgSize

None == "none"

\* ---- program constants ----
RTTMaxInit == -100000
RTTMinInit == 100000

\* os.Getpid() & 0xffff of this process, and the identifier of another pinger
Pid == "pid"
OtherPid == "other pid"

\* payload bytes: "a" is the filler of bytes.Repeat, "b" a corrupted byte
Bytes == {"a", "b"}

VARIABLES
  \* PingClient
  \* (pcSeq is the field pc.Seq)
  PacketOut, PacketIn, pcSeq, TotalTime, RTTMax, RTTMin, MsgSize, PLost,
  \* the main goroutine: position, and the locals of the current Ping call
  mainPC, msgSeq, reply, dur_ms, pLost, err, stdout,
  \* operating system: sockets this process holds open
  sockets,
  \* the signal goroutine: channel, position, local loss, printed report
  sigchan, sigPC, loss, report,
  \* history: number of Ping calls started, the session at the start of the
  \* current call, number of RTT samples added to TotalTime, the set of
  \* the round-trip times recorded
  calls, pre, samples, durs

client == <<PacketOut, PacketIn, pcSeq, TotalTime, RTTMax, RTTMin, MsgSize, PLost>>
locals == <<msgSeq, reply, dur_ms, pLost, err, stdout>>
sig == <<sigchan, sigPC, loss, report>>
vars == <<client, mainPC, locals, sockets, sig, calls, pre, samples, durs>>

\* ---- pure helpers ----

\* bytes.Repeat([]byte("a"), n)
Repeat(n) == [i \in 1..n |-> "a"]

\* all byte strings of length at most n
RECURSIVE SeqsUpTo(_)
SeqsUpTo(n) ==
  IF n = 0 THEN {<<>>}
  ELSE SeqsUpTo(n - 1) \cup [1..n -> Bytes]

\* number of positions 1..n at which S and R differ
Mismatch(S, R, n) == Cardinality({i \in 1..n : S[i] # R[i]})

\* LostBytes without the mismatches of the overlap of a shorter reply
LostBytes_TailOnly(S, R) ==
  IF Len(R) < Len(S)
  THEN Len(S) - Len(R)
  ELSE Mismatch(S, R, Len(S))

\* the pLost computation of the *icmp.Echo case
LostBytes(S, R) ==
  IF Len(R) < Len(S)
  THEN (Len(S) - Len(R)) + Mismatch(S, R, Len(R))
  ELSE Mismatch(S, R, Len(S))

\* identifier and 16-bit sequence number of an Echo that arrives while the
\* request with sequence number sent is awaited: the reply to it, an Echo of
\* another pinger on the host, a late reply to this session's previous probe
EchoHeaders(sent) ==
  {<<Pid, sent>>, <<OtherPid, sent>>, <<Pid, (sent + 65535) % 65536>>}

\* what the read can deliver: a datagram ParseMessage rejects, a message
\* with another body than Echo, or an Echo with identifier, sequence number
\* and a payload of at most MaxMsgSize bytes (shorter than, as long as or
\* longer than the MsgSize bytes sent)
Datagrams(sent) ==
  {[kind |-> "bad", id |-> None, seq |-> 0, data |-> <<>>],
   [kind |-> "other", id |-> None, seq |-> 0, data |-> <<>>]}
  \cup {[kind |-> "echo", id |-> h[1], seq |-> h[2], data |-> d] :
          h \in EchoHeaders(sent), d \in SeqsUpTo(MaxMsgSize)}

NoReply == [kind |-> None, id |-> None, seq |-> 0, data |-> <<>>]

Snapshot ==
  [PacketOut |-> PacketOut, PacketIn |-> PacketIn, pcSeq |-> pcSeq,
   TotalTime |-> TotalTime, RTTMax |-> RTTMax, RTTMin |-> RTTMin,
   PLost |-> PLost, sockets |-> sockets]

Running == sigPC # "exited"

\* ---- NewClient ----
Init ==
  /\ PacketOut = 0 /\ PacketIn = 0 /\ pcSeq = 0 /\ TotalTime = 0
  /\ RTTMax = RTTMaxInit /\ RTTMin = RTTMinInit
  /\ MsgSize \in 0..MaxMsgSize
  /\ PLost = 0
  /\ mainPC = "l245"
  /\ msgSeq = 0 /\ reply = NoReply /\ dur_ms = 0 /\ pLost = 0
  /\ err = None /\ stdout = <<>>
  /\ sockets = 0
  /\ sigchan = 0 /\ sigPC = "l225" /\ loss = <<100, 1>> /\ report = <<>>
  /\ calls = 0 /\ samples = 0 /\ durs = {}
  /\ pre = [PacketOut |-> 0, PacketIn |-> 0, pcSeq |-> 0, TotalTime |-> 0,
            RTTMax |-> RTTMaxInit, RTTMin |-> RTTMinInit, PLost |-> 0,
            sockets |-> 0]

\* return e from Ping to the main loop
Return(e) == mainPC' = "l246" /\ err' = e

\* ---- main loop: client.Ping(ttl) ----
MainLoopCall ==
  /\ Running /\ mainPC = "l245" /\ calls < MaxCalls
  /\ mainPC' = "l96"
  /\ calls' = calls + 1
  /\ pre' = Snapshot
  /\ UNCHANGED <<client, locals, sockets, sig, samples, durs>>

\* icmp.ListenPacket
ListenPacket ==
  /\ Running /\ mainPC = "l96"
  /\ \/ /\ Return("listen")
        /\ UNCHANGED sockets
     \/ /\ sockets' = sockets + 1
        /\ mainPC' = "l109"
        /\ UNCHANGED err
  /\ UNCHANGED <<client, msgSeq, reply, dur_ms, pLost, stdout, sig, calls,
                 pre, samples, durs>>

\* BuildMessage without pc.PacketOut++
BuildMessage_NoPacketOut ==
  /\ Running /\ mainPC = "l109"
  /\ msgSeq' = pcSeq
  /\ pcSeq' = pcSeq + 1
  /\ mainPC' = "l121"
  /\ UNCHANGED <<PacketOut, PacketIn, TotalTime, RTTMax, RTTMin, MsgSize,
                 PLost, reply, dur_ms, pLost, err, stdout, sockets, sig,
                 calls, pre, samples, durs>>

\* BuildMessage without pc.Seq++
BuildMessage_NoSeq ==
  /\ Running /\ mainPC = "l109"
  /\ msgSeq' = pcSeq
  /\ PacketOut' = PacketOut + 1
  /\ mainPC' = "l121"
  /\ UNCHANGED <<pcSeq, PacketIn, TotalTime, RTTMax, RTTMin, MsgSize, PLost,
                 reply, dur_ms, pLost, err, stdout, sockets, sig, calls, pre,
                 samples, durs>>

\* build the Echo request, pc.Seq++, pc.PacketOut++
BuildMessage ==
  /\ Running /\ mainPC = "l109"
  /\ msgSeq' = pcSeq
  /\ pcSeq' = pcSeq + 1
  /\ PacketOut' = PacketOut + 1
  /\ mainPC' = "l121"
  /\ UNCHANGED <<PacketIn, TotalTime, RTTMax, RTTMin, MsgSize, PLost, reply,
                 dur_ms, pLost, err, stdout, sockets, sig, calls, pre,
                 samples, durs>>

\* m.Marshal(nil)
Marshal ==
  /\ Running /\ mainPC = "l121"
  /\ \/ Return("marshal")
     \/ mainPC' = "l127" /\ UNCHANGED err
  /\ UNCHANGED <<client, msgSeq, reply, dur_ms, pLost, stdout, sockets, sig,
                 calls, pre, samples, durs>>

\* c.WriteTo: transport error, short write, or sent
WriteTo ==
  /\ Running /\ mainPC = "l127"
  /\ \/ Return("write")
     \/ Return("short write")
     \/ mainPC' = "l137" /\ UNCHANGED err
  /\ UNCHANGED <<client, msgSeq, reply, dur_ms, pLost, stdout, sockets, sig,
                 calls, pre, samples, durs>>

\* c.SetReadDeadline
SetReadDeadline ==
  /\ Running /\ mainPC = "l137"
  /\ \/ Return("deadline")
     \/ mainPC' = "l143" /\ UNCHANGED err
  /\ UNCHANGED <<client, msgSeq, reply, dur_ms, pLost, stdout, sockets, sig,
                 calls, pre, samples, durs>>

\* ReadFrom with the elapsed time added to the total before the error check
ReadFrom_TimeoutTimed ==
  /\ Running /\ mainPC = "l143"
  /\ \/ /\ Return("timeout")
        /\ TotalTime' = TotalTime + MaxDur
        /\ UNCHANGED reply
     \/ /\ \E d \in Datagrams(msgSeq) : reply' = d
        /\ mainPC' = "l148"
        /\ UNCHANGED <<err, TotalTime>>
  /\ UNCHANGED <<PacketOut, PacketIn, pcSeq, RTTMax, RTTMin, MsgSize, PLost,
                 msgSeq, dur_ms, pLost, stdout, sockets, sig, calls, pre,
                 samples, durs>>

\* c.ReadFrom: the deadline expires, or one datagram arrives
ReadFrom ==
  /\ Running /\ mainPC = "l143"
  /\ \/ /\ Return("timeout")
        /\ UNCHANGED reply
     \/ /\ \E d \in Datagrams(msgSeq) : reply' = d
        /\ mainPC' = "l148"
        /\ UNCHANGED err
  /\ UNCHANGED <<client, msgSeq, dur_ms, pLost, stdout, sockets, sig, calls,
                 pre, samples, durs>>

\* UpdateRTT with the maximum tested only when the minimum was not lowered
UpdateRTT_ElseIf ==
  /\ Running /\ mainPC = "l148"
  /\ \E d \in 1..MaxDur :
       /\ dur_ms' = d
       /\ RTTMin' = IF d < RTTMin THEN d ELSE RTTMin
       /\ RTTMax' = IF d >= RTTMin /\ d > RTTMax THEN d ELSE RTTMax
       /\ TotalTime' = TotalTime + d
       /\ durs' = durs \cup {d}
  /\ samples' = samples + 1
  /\ mainPC' = "l161"
  /\ UNCHANGED <<PacketOut, PacketIn, pcSeq, MsgSize, PLost, msgSeq, reply,
                 pLost, err, stdout, sockets, sig, calls, pre>>

\* time.Since(start) and the min / max / total update
UpdateRTT ==
  /\ Running /\ mainPC = "l148"
  /\ \E d \in 1..MaxDur :
       /\ dur_ms' = d
       /\ RTTMin' = IF d < RTTMin THEN d ELSE RTTMin
       /\ RTTMax' = IF d > RTTMax THEN d ELSE RTTMax
       /\ TotalTime' = TotalTime + d
       /\ durs' = durs \cup {d}
  /\ samples' = samples + 1
  /\ mainPC' = "l161"
  /\ UNCHANGED <<PacketOut, PacketIn, pcSeq, MsgSize, PLost, msgSeq, reply,
                 pLost, err, stdout, sockets, sig, calls, pre>>

\* icmp.ParseMessage
ParseMessage ==
  /\ Running /\ mainPC = "l161"
  /\ IF reply.kind = "bad"
     THEN Return("parse")
     ELSE mainPC' = "l166" /\ UNCHANGED err
  /\ UNCHANGED <<client, msgSeq, reply, dur_ms, pLost, stdout, sockets, sig,
                 calls, pre, samples, durs>>

\* what the Printf of the Echo case writes
Outcome(p, lost) ==
  [bytes |-> Len(p.data), lossPercent |-> <<lost * 100, MsgSize>>,
   from |-> "IPAddr", icmp_seq |-> pcSeq, time |-> dur_ms]

\* HandleReply that treats a reply with lost bytes as a failed attempt
HandleReply_LossIsError ==
  /\ Running /\ mainPC = "l166"
  /\ IF reply.kind = "echo"
     THEN LET lost == LostBytes(Repeat(MsgSize), reply.data) IN
          /\ pLost' = lost
          /\ stdout' = IF Len(reply.data) < MsgSize
                       THEN stdout
                       ELSE Append(stdout, Outcome(reply, lost))
          /\ PacketIn' = IF lost > 0 THEN PacketIn ELSE PacketIn + 1
          /\ Return(IF lost > 0 THEN "data loss" ELSE None)
     ELSE /\ PacketIn' = PacketIn + 1
          /\ Return(None)
          /\ UNCHANGED <<pLost, stdout>>
  /\ UNCHANGED <<PacketOut, pcSeq, TotalTime, RTTMax, RTTMin, MsgSize, PLost,
                 msgSeq, reply, dur_ms, sockets, sig, calls, pre, samples, durs>>

\* pc.PacketIn++, the type switch on the body, return nil
HandleReply ==
  /\ Running /\ mainPC = "l166"
  /\ PacketIn' = PacketIn + 1
  /\ IF reply.kind = "echo"
     THEN LET lost == LostBytes(Repeat(MsgSize), reply.data) IN
          /\ pLost' = lost
          /\ stdout' = IF Len(reply.data) < MsgSize
                       THEN stdout
                       ELSE Append(stdout, Outcome(reply, lost))
     ELSE UNCHANGED <<pLost, stdout>>
  /\ Return(None)
  /\ UNCHANGED <<PacketOut, pcSeq, TotalTime, RTTMax, RTTMin, MsgSize, PLost,
                 msgSeq, reply, dur_ms, sockets, sig, calls, pre, samples, durs>>

\* MainLoopSleep that ends the process when Ping returned an error
MainLoopSleep_ExitOnError ==
  /\ Running /\ mainPC = "l246"
  /\ mainPC' = "l245"
  /\ sigPC' = IF err # None THEN "exited" ELSE sigPC
  /\ msgSeq' = 0 /\ reply' = NoReply /\ dur_ms' = 0 /\ pLost' = 0
  /\ err' = None /\ stdout' = <<>>
  /\ UNCHANGED <<client, sockets, sigchan, loss, report, calls, pre,
                 samples, durs>>

\* main loop: print the error, sleep one second; the locals of the call
\* that returned are dead
MainLoopSleep ==
  /\ Running /\ mainPC = "l246"
  /\ mainPC' = "l245"
  /\ msgSeq' = 0 /\ reply' = NoReply /\ dur_ms' = 0 /\ pLost' = 0
  /\ err' = None /\ stdout' = <<>>
  /\ UNCHANGED <<client, sockets, sig, calls, pre, samples, durs>>

\* ---- the interrupt and the goroutine that reports ----

\* signal.Notify delivers into a channel of capacity 1, dropping when full
Interrupt ==
  /\ Running /\ sigchan = 0
  /\ sigchan' = 1
  /\ UNCHANGED <<client, mainPC, locals, sockets, sigPC, loss, report, calls,
                 pre, samples, durs>>

\* for _ = range sigchan
SigRecv ==
  /\ sigPC = "l225" /\ sigchan = 1
  /\ sigchan' = 0
  /\ sigPC' = "l226"
  /\ UNCHANGED <<client, mainPC, locals, sockets, loss, report, calls, pre,
                 samples, durs>>

\* the overall loss counted in packets instead of bytes
LossPercent_Packets(in, lost, out, size) == <<(out - in) * 100, out>>

\* the overall loss of the report
LossPercent(in, lost, out, size) ==
  IF in > 0 THEN <<lost * 100, out * size>> ELSE <<100, 1>>

ComputeLoss ==
  /\ sigPC = "l226"
  /\ loss' = LossPercent(PacketIn, PLost, PacketOut, MsgSize)
  /\ sigPC' = "l230"
  /\ UNCHANGED <<client, mainPC, locals, sockets, sigchan, report, calls,
                 pre, samples, durs>>

\* "packets sent: %d, packets received: %d, %.0f%% loss"
PrintStats ==
  /\ sigPC = "l230"
  /\ report' = Append(report, [line |-> "packets", sent |-> PacketOut,
                               received |-> PacketIn, loss |-> loss])
  /\ sigPC' = "l233"
  /\ UNCHANGED <<client, mainPC, locals, sockets, sigchan, loss, calls, pre,
                 samples, durs>>

\* PrintRTT without the PacketIn > 0 test
PrintRTT_Unguarded ==
  /\ sigPC = "l233"
  /\ report' = Append(report, [line |-> "rtt", min |-> RTTMin,
                               avg |-> <<TotalTime, PacketIn>>,
                               max |-> RTTMax, samples |-> samples])
  /\ sigPC' = "l237"
  /\ UNCHANGED <<client, mainPC, locals, sockets, sigchan, loss, calls, pre,
                 samples, durs>>

\* "rtt min/avg/max" when PacketIn > 0
PrintRTT ==
  /\ sigPC = "l233"
  /\ report' = IF PacketIn > 0
               THEN Append(report, [line |-> "rtt", min |-> RTTMin,
                                    avg |-> <<TotalTime, PacketIn>>,
                                    max |-> RTTMax, samples |-> samples])
               ELSE report
  /\ sigPC' = "l237"
  /\ UNCHANGED <<client, mainPC, locals, sockets, sigchan, loss, calls, pre,
                 samples, durs>>

\* Exit that returns to the range loop instead of ending the process
Exit_NoExit ==
  /\ sigPC = "l237"
  /\ sigPC' = "l225"
  /\ UNCHANGED <<client, mainPC, locals, sockets, sigchan, loss, report,
                 calls, pre, samples, durs>>

\* os.Exit(0)
Exit ==
  /\ sigPC = "l237"
  /\ sigPC' = "exited"
  /\ UNCHANGED <<client, mainPC, locals, sockets, sigchan, loss, report,
                 calls, pre, samples, durs>>

Next ==
  \/ MainLoopCall
  \/ ListenPacket
  \/ BuildMessage
  \/ Marshal
  \/ WriteTo
  \/ SetReadDeadline
  \/ ReadFrom
  \/ UpdateRTT
  \/ ParseMessage
  \/ HandleReply
  \/ MainLoopSleep
  \/ Interrupt
  \/ SigRecv
  \/ ComputeLoss
  \/ PrintStats
  \/ PrintRTT
  \/ Exit

Spec == Init /\ [][Next]_vars

\* The main goroutine is runnable after Ping returns and after its sleep,
\* and the signal goroutine runs to os.Exit once it has received: the Go
\* scheduler lets neither wait forever.
FairSpec ==
  /\ Spec
  /\ WF_vars(MainLoopCall) /\ WF_vars(MainLoopSleep)
  /\ WF_vars(SigRecv) /\ WF_vars(ComputeLoss) /\ WF_vars(PrintStats)
  /\ WF_vars(PrintRTT) /\ WF_vars(Exit)

TypeOK ==
  /\ PacketOut \in 0..MaxCalls /\ PacketIn \in 0..MaxCalls
  /\ pcSeq \in 0..MaxCalls
  /\ sockets \in 0..MaxCalls
  /\ sigchan \in 0..1

\* ---- properties ----

\* equality of two float64 quotients kept as pairs
FloatEq(x, y) ==
  IF x[2] # 0 /\ y[2] # 0 THEN x[1] * y[2] = y[1] * x[2] ELSE x = y

\* the main goroutine is back in the main loop from a Ping call
Returned == mainPC = "l246"

\* C1: in every reachable state, between and inside Ping calls and for any
\* sequence of probe outcomes, PacketIn <= PacketOut.
Thm_C1 == PacketIn <= PacketOut

Wit_C1 == Returned /\ PacketIn = 2 /\ PacketOut = 2

\* C2 as stated: after call k, Seq equals its initial value (0) plus k,
\* whatever the outcome of each call, a failure to open the socket included.
Cx_C2 == Returned => pcSeq = calls

\* C2 amended: a call that opened its socket leaves Seq one larger than it
\* found it, whatever happened afterwards; a call that failed to open the
\* socket leaves Seq as it found it.
Thm_C2 ==
  Returned => pcSeq = pre.pcSeq + (IF err = "listen" THEN 0 ELSE 1)

Wit_C2 == Returned /\ err = "listen" /\ calls = 2 /\ pcSeq = 1

\* C3: after a Ping call that received an Echo reply with k bytes counted as
\* lost, PLost is larger by exactly k than before the call.
Cx_C3 ==
  (Returned /\ reply.kind = "echo") => PLost = pre.PLost + pLost

\* C4: after any Ping call returns, the socket the call opened is closed: no
\* socket opened by a probe is open between probes.
Cx_C4 == mainPC \in {"l245", "l246"} => sockets = 0

\* C5: the reporter and the probe update exclude each other, and the report
\* never shows a TotalTime with an RTT sample whose reply is not counted in
\* the PacketIn it is divided by.
Cx_C5 ==
  /\ ~(sigPC \in {"l230", "l233"} /\ mainPC \in {"l161", "l166"})
  /\ \A i \in 1..Len(report) :
       report[i].line = "rtt" => report[i].samples = report[i].avg[2]

\* C6: a Ping call whose receive deadline expires increases PacketOut and
\* Seq by one and leaves PacketIn, PLost, RTTMin, RTTMax and TotalTime as
\* they were before the call.
Thm_C6 ==
  (Returned /\ err = "timeout") =>
    /\ PacketOut = pre.PacketOut + 1
    /\ pcSeq = pre.pcSeq + 1
    /\ PacketIn = pre.PacketIn
    /\ PLost = pre.PLost
    /\ RTTMin = pre.RTTMin
    /\ RTTMax = pre.RTTMax
    /\ TotalTime = pre.TotalTime

Wit_C6 == Returned /\ err = "timeout" /\ pre.PacketIn = 1 /\ pre.TotalTime > 0

\* C7: when the received datagram parses as an ICMP message whose body is
\* not an Echo body, Ping returns an error, not nil.
Cx_C7 == (Returned /\ reply.kind = "other") => err # None

\* C8: every Ping call that receives an Echo reply produces exactly one
\* per-attempt outcome record, also when the received payload is shorter
\* than the sent payload.
Cx_C8 == (Returned /\ reply.kind = "echo") => Len(stdout) = 1

\* C9: the sequence number shown in the per-attempt outcome equals the
\* sequence number placed in the Echo request of the same call.
Cx_C9 == \A i \in 1..Len(stdout) : stdout[i].icmp_seq = msgSeq

\* C10: the loss the reporter computes is 100 when PacketIn = 0, and
\* otherwise PLost / (PacketOut * MsgSize) * 100 of the statistics it reads;
\* the report shows that value.
Thm_C10 ==
  [][/\ (sigPC = "l226" /\ sigPC' = "l230") =>
          IF PacketIn = 0
          THEN FloatEq(loss', <<100, 1>>)
          ELSE FloatEq(loss', <<PLost * 100, PacketOut * MsgSize>>)
     /\ (sigPC = "l230" /\ sigPC' = "l233") =>
          report'[Len(report')].loss = loss]_vars

Wit_C10 ==
  /\ sigPC = "l233"
  /\ report[1].sent = MaxCalls /\ report[1].received = 0
  /\ report[1].loss = <<100, 1>>

\* C11: the reporter never divides by zero for the RTT average: with
\* PacketIn = 0 it prints no rtt line, with PacketIn > 0 the rtt line shows
\* TotalTime / PacketIn.
Thm_C11 ==
  [][(sigPC = "l233" /\ sigPC' = "l237") =>
       /\ IF PacketIn = 0
          THEN report' = report
          ELSE /\ Len(report') = Len(report) + 1
               /\ report'[Len(report')].line = "rtt"
               /\ report'[Len(report')].avg = <<TotalTime, PacketIn>>
       /\ \A i \in 1..Len(report') :
            report'[i].line = "rtt" => report'[i].avg[2] # 0]_vars

Wit_C11 ==
  sigPC = "l237" /\ PacketIn = 0 /\ PacketOut > 0 /\ Len(report) = 1

\* the reference rule for the bytes lost of sent payload S in received R,
\* position by position
RECURSIVE RefDiff(_, _, _)
RefDiff(S, R, i) ==
  IF i = 0 THEN 0
  ELSE RefDiff(S, R, i - 1) + (IF S[i] # R[i] THEN 1 ELSE 0)

RefLost(S, R) ==
  IF Len(R) < Len(S)
  THEN (Len(S) - Len(R)) + RefDiff(S, R, Len(R))
  ELSE RefDiff(S, R, Len(S))

\* C14: the lost-byte count Ping computes for a received Echo reply equals
\* the reference rule; it is 0 for an intact reply, 4 for an 8-byte payload
\* and a matching 4-byte reply, and always between 0 and the sent length.
Thm_C14 ==
  /\ (Returned /\ reply.kind = "echo") =>
       /\ pLost = RefLost(Repeat(MsgSize), reply.data)
       /\ pLost >= 0 /\ pLost <= MsgSize
       /\ (reply.data = Repeat(MsgSize) => pLost = 0)
  /\ LostBytes(Repeat(8), Repeat(4)) = 4

Wit_C14 ==
  /\ Returned /\ reply.kind = "echo"
  /\ MsgSize = 2 /\ reply.data = <<"b">> /\ pLost = 2

\* C17: a received Echo reply whose payload is truncated or differs from
\* the sent payload is not a failure: Ping returns nil and PacketIn grows by
\* exactly one, as for an intact reply.
Thm_C17 ==
  (Returned /\ reply.kind = "echo") =>
    err = None /\ PacketIn = pre.PacketIn + 1

Wit_C17 ==
  /\ Returned /\ reply.kind = "echo" /\ err = None
  /\ Len(reply.data) < MsgSize /\ reply.data # Repeat(Len(reply.data))
  /\ PacketIn = pre.PacketIn + 1

SetMin(S) == CHOOSE x \in S : \A y \in S : x <= y
SetMax(S) == CHOOSE x \in S : \A y \in S : x >= y

\* C15: after the first reply, with round-trip time r, RTTMin = RTTMax = r;
\* after every later reply RTTMin is the minimum and RTTMax the maximum of
\* all round-trip times recorded so far.
Thm_C15 ==
  /\ samples > 0 => RTTMin = SetMin(durs) /\ RTTMax = SetMax(durs)
  /\ (samples = 1 /\ dur_ms > 0) => RTTMin = dur_ms /\ RTTMax = dur_ms

Wit_C15 ==
  /\ Returned /\ samples = 2 /\ PacketIn = 2
  /\ pre.RTTMin = 2 /\ pre.RTTMax = 2 /\ dur_ms = 1
  /\ RTTMin = 1 /\ RTTMax = 2

\* C16: a Ping call that returns an error does not increment PacketIn and
\* leaves RTTMin, RTTMax and TotalTime unchanged; the RTT fields change only
\* in a call that also increments PacketIn.
Cx_C16 ==
  Returned =>
    /\ err # None =>
         /\ PacketIn = pre.PacketIn
         /\ RTTMin = pre.RTTMin /\ RTTMax = pre.RTTMax
         /\ TotalTime = pre.TotalTime
    /\ <<RTTMin, RTTMax, TotalTime>>
         # <<pre.RTTMin, pre.RTTMax, pre.TotalTime>>
       => PacketIn = pre.PacketIn + 1

\* C18: between Ping calls with PacketIn > 0 the average lies between the
\* extrema: RTTMin * PacketIn <= TotalTime <= RTTMax * PacketIn.
Cx_C18 ==
  (mainPC \in {"l245", "l246"} /\ PacketIn > 0) =>
    RTTMin * PacketIn <= TotalTime /\ TotalTime <= RTTMax * PacketIn

\* C19: a datagram is counted in PacketIn and contributes an RTT sample only
\* if it is an Echo whose identifier is the session's and whose sequence
\* number is the one just sent.
Cx_C19 ==
  (mainPC \in {"l161", "l166", "l246"} /\ reply.kind # None) =>
    reply.kind = "echo" /\ reply.id = Pid /\ reply.seq = msgSeq % 65536

\* an interrupt has been delivered to the process
Interrupted ==
  sigchan = 1 \/ sigPC \in {"l226", "l230", "l233", "l237"} \/ report # <<>>

\* C12: no per-attempt error terminates the process: as long as no
\* interrupt arrives, after every Ping call that returns, with or without an
\* error, the main loop starts another Ping call (while the model's budget
\* of calls lasts).
Thm_C12 ==
  []((Returned /\ calls < MaxCalls) => <>(mainPC = "l96" \/ Interrupted))

Wit_C12 ==
  /\ mainPC = "l96" /\ calls = 2 /\ ~Interrupted
  /\ pre.PacketOut = 1 /\ pre.PacketIn = 0

\* the "packets" lines of the report printed so far
PacketLines == {i \in 1..Len(report) : report[i].line = "packets"}

\* C13: an interrupt leads to the final report and then to the end of the
\* process; the report is printed exactly once, also when several interrupts
\* arrive, and nothing happens after the process has ended.
Thm_C13 ==
  /\ (sigchan = 1) ~> (sigPC = "exited")
  /\ [](Cardinality(PacketLines) <= 1)
  /\ [](sigPC = "exited" => Cardinality(PacketLines) = 1)
  /\ [][sigPC = "exited" => UNCHANGED vars]_vars

Wit_C13 ==
  /\ sigPC = "exited" /\ sigchan = 1 /\ Cardinality(PacketLines) = 1
  /\ mainPC = "l143"
====
